---- MODULE Spec2Model ----
(***************************************************************************)
(* Model of bookstore_manager.py: a SQLite-backed sales ledger with three  *)
(* tables (member, book, sale) and the operations initialize_db, add_sale, *)
(* print_sale_report, list_sales_summary, update_sale and delete_sale.     *)
(*                                                                         *)
(* Text inputs (dates, menu choices, typed numbers) are tuples of          *)
(* one-character strings, so that len(), count(), isdigit(), strip() and   *)
(* int() are computed the way the program computes them.                   *)
(***************************************************************************)
EXTENDS Integers, Sequences, FiniteSets, TLC

VARIABLES
    member,            \* table member: mid -> row
    book,              \* table book:   bid -> row
    sale,              \* table sale:   sid -> row
    sqlite_sequence,   \* AUTOINCREMENT counter of table sale
    result,            \* outcome of the last operation (return value / printed message)
    bstock0,           \* history: each book's stock when the program started
    bpriceAtCreation,  \* history: sid -> the book's price when the sale was created
    assigned           \* history: the sids that successful add_sale calls created

vars == <<member, book, sale, sqlite_sequence, result, bstock0, bpriceAtCreation,
          assigned>>

(***************************************************************************)
(* Bounds                                                                  *)
(***************************************************************************)
\* add_sale is not explored further once the AUTOINCREMENT counter reached MaxSid
MaxSid == 2

(***************************************************************************)
(* Text helpers                                                            *)
(***************************************************************************)
DigitChars == <<"0", "1", "2", "3", "4", "5", "6", "7", "8", "9">>

Digits == {DigitChars[i] : i \in 1..10}

DigitVal(c) == (CHOOSE i \in 1..10 : DigitChars[i] = c) - 1

\* str.count(c) for a one-character c
RECURSIVE Count(_, _)
Count(s, c) ==
    IF s = <<>> THEN 0
    ELSE (IF Head(s) = c THEN 1 ELSE 0) + Count(Tail(s), c)

\* str.isdigit(): non-empty and every character a digit
IsDigit(s) == s # <<>> /\ \A i \in 1..Len(s) : s[i] \in Digits

\* int() of a string of digits
RECURSIVE DigitsToInt(_)
DigitsToInt(s) ==
    IF s = <<>> THEN 0
    ELSE DigitsToInt(SubSeq(s, 1, Len(s) - 1)) * 10 + DigitVal(s[Len(s)])

\* str.strip(): leading and trailing blanks removed
RECURSIVE LStrip(_)
LStrip(s) == IF s # <<>> /\ Head(s) = " " THEN LStrip(Tail(s)) ELSE s

RECURSIVE RStrip(_)
RStrip(s) ==
    IF s # <<>> /\ s[Len(s)] = " " THEN RStrip(SubSeq(s, 1, Len(s) - 1)) ELSE s

Strip(s) == RStrip(LStrip(s))

\* int(text): blanks around the number are ignored, one optional sign, then
\* digits; anything else raises ValueError (ok = FALSE)
ParseInt(text) ==
    LET t == Strip(text)
        signed == t # <<>> /\ Head(t) \in {"-", "+"}
        body == IF signed THEN Tail(t) ELSE t
    IN  IF ~IsDigit(body) THEN [ok |-> FALSE, val |-> 0]
        ELSE [ok |-> TRUE,
              val |-> IF signed /\ Head(t) = "-" THEN 0 - DigitsToInt(body)
                      ELSE DigitsToInt(body)]

\* f"{n:,}": decimal digits grouped in threes
RECURSIVE NatToStr(_)
NatToStr(n) ==
    IF n < 10 THEN <<DigitChars[n + 1]>>
    ELSE NatToStr(n \div 10) \o <<DigitChars[(n % 10) + 1]>>

Pad3(n) ==
    <<DigitChars[(n \div 100) + 1], DigitChars[((n \div 10) % 10) + 1],
      DigitChars[(n % 10) + 1]>>

RECURSIVE Group(_)
Group(n) ==
    IF n < 1000 THEN NatToStr(n)
    ELSE Group(n \div 1000) \o <<",">> \o Pad3(n % 1000)

FormatComma(n) == IF n < 0 THEN <<"-">> \o Group(0 - n) ELSE Group(n)

(***************************************************************************)
(* The store, as the connection sees it                                    *)
(***************************************************************************)
Db == [member |-> member, book |-> book, sale |-> sale, seq |-> sqlite_sequence]

SetMax(S) == CHOOSE x \in S : \A y \in S : y <= x

\* Variant: INTEGER PRIMARY KEY without AUTOINCREMENT, one more than the
\* largest rowid in the table
NextSidFromRows(db) ==
    (IF DOMAIN db.sale = {} THEN 0 ELSE SetMax(DOMAIN db.sale)) + 1

\* INTEGER PRIMARY KEY AUTOINCREMENT: one more than the largest rowid ever used
NextSid(db) ==
    (IF DOMAIN db.sale = {} THEN db.seq
     ELSE IF SetMax(DOMAIN db.sale) > db.seq THEN SetMax(DOMAIN db.sale)
     ELSE db.seq) + 1

\* INSERT INTO sale (sdate, mid, bid, sqty, sdiscount, stotal) VALUES (...)
InsertSale(db, sdate, mid, bid, sqty, sdiscount, stotal) ==
    LET sid == NextSid(db)
        row == [sdate |-> sdate, mid |-> mid, bid |-> bid, sqty |-> sqty,
                sdiscount |-> sdiscount, stotal |-> stotal]
    IN  [db EXCEPT !.sale = [s \in DOMAIN db.sale \cup {sid} |->
                                IF s = sid THEN row ELSE db.sale[s]],
                   !.seq = sid]

\* Variant: the stock is lowered by one copy, whatever the quantity
DecrementStockByOne(db, sqty, bid) ==
    [db EXCEPT !.book = [b \in DOMAIN db.book |->
                            IF b = bid
                            THEN [db.book[b] EXCEPT !.bstock = @ - 1]
                            ELSE db.book[b]]]

\* UPDATE book SET bstock = bstock - ? WHERE bid = ?
DecrementStock(db, sqty, bid) ==
    [db EXCEPT !.book = [b \in DOMAIN db.book |->
                            IF b = bid
                            THEN [db.book[b] EXCEPT !.bstock = @ - sqty]
                            ELSE db.book[b]]]

\* Variant: the stock is not given back
RestoreStockSkipped(db, sqty, bid) == db

\* Variant: the WHERE clause is missing, every book's stock is raised
RestoreStockEveryBook(db, sqty, bid) ==
    [db EXCEPT !.book = [b \in DOMAIN db.book |->
                            [db.book[b] EXCEPT !.bstock = @ + sqty]]]

\* UPDATE book SET bstock = bstock + ? WHERE bid = ?
RestoreStock(db, sqty, bid) ==
    [db EXCEPT !.book = [b \in DOMAIN db.book |->
                            IF b = bid
                            THEN [db.book[b] EXCEPT !.bstock = @ + sqty]
                            ELSE db.book[b]]]

\* Variant: the WHERE clause is missing, every sale row is rewritten
UpdateSaleRowEverySale(db, new_discount, new_total, sid) ==
    [db EXCEPT !.sale = [s \in DOMAIN db.sale |->
                            [db.sale[s] EXCEPT !.sdiscount = new_discount,
                                               !.stotal = new_total]]]

\* UPDATE sale SET sdiscount = ?, stotal = ? WHERE sid = ?
UpdateSaleRow(db, new_discount, new_total, sid) ==
    [db EXCEPT !.sale = [s \in DOMAIN db.sale |->
                            IF s = sid
                            THEN [db.sale[s] EXCEPT !.sdiscount = new_discount,
                                                    !.stotal = new_total]
                            ELSE db.sale[s]]]

\* WHERE sid = ? with a text parameter: the INTEGER column's affinity turns
\* text that reads as an integer into that integer; other text matches no row
SidMatches(db, text) ==
    LET n == ParseInt(text)
    IN  {s \in DOMAIN db.sale : n.ok /\ s = n.val}

\* DELETE FROM sale WHERE sid = ?
DeleteSaleRow(db, text) ==
    [db EXCEPT !.sale = [s \in DOMAIN db.sale \ SidMatches(db, text) |-> db.sale[s]]]

\* conn.commit(): the pending writes become the store
Commit(before, pending) == pending

\* Variant: the rollback is missing, the pending writes stay
RollbackSkipped(before, pending) == pending

\* conn.rollback(): the pending writes are dropped
Rollback(before, pending) == before

(***************************************************************************)
(* Outcomes                                                                *)
(***************************************************************************)
\* op: the operation; ok: whether it reported success; msg: which message it
\* returned or printed; sid: the sale it created, updated or deleted (0: none);
\* out: what a view produced
Outcome(op, ok, msg, sid, out) ==
    [op |-> op, ok |-> ok, msg |-> msg, sid |-> sid, out |-> out]

Ret(db, ok, msg, sid) ==
    [db |-> db, ret |-> Outcome("add_sale", ok, msg, sid, <<>>)]

Range(f) == {f[x] : x \in DOMAIN f}

\* Variant: ORDER BY ... DESC
RECURSIVE Descending(_)
Descending(S) ==
    IF S = {} THEN <<>>
    ELSE LET m == CHOOSE x \in S : \A y \in S : y <= x
         IN  <<m>> \o Descending(S \ {m})

\* the elements of a set of integers in ascending order (ORDER BY)
RECURSIVE Ascending(_)
Ascending(S) ==
    IF S = {} THEN <<>>
    ELSE LET m == CHOOSE x \in S : \A y \in S : x <= y
         IN  <<m>> \o Ascending(S \ {m})

(***************************************************************************)
(* add_sale                                                                *)
(***************************************************************************)
\* len(sdate) != 10 or sdate.count('-') != 2
DateFormatError(sdate) == Len(sdate) # 10 \/ Count(sdate, "-") # 2

\* sqty <= 0 or sdiscount < 0
QtyDiscountError(sqty, sdiscount) == sqty <= 0 \/ sdiscount < 0

\* Variant: only an empty shelf is refused
StockErrorOnlyWhenEmpty(book_row, sqty) == book_row.bstock <= 0

\* book_row["bstock"] < sqty
StockError(book_row, sqty) == book_row.bstock < sqty

\* Variant: a total below zero is stored as zero
SaleTotalFloored(bprice, sqty, sdiscount) ==
    IF bprice * sqty - sdiscount < 0 THEN 0 ELSE bprice * sqty - sdiscount

\* stotal = book_row["bprice"] * sqty - sdiscount
SaleTotal(bprice, sqty, sdiscount) == bprice * sqty - sdiscount

\* Variant: the stock check comes after the two writes, and its early return
\* leaves them pending
add_sale_LateStockCheck(db, sdate, mid, bid, sqty, sdiscount, fault) ==
    IF DateFormatError(sdate) THEN Ret(db, FALSE, "DateFormatError", 0)
    ELSE IF mid \notin DOMAIN db.member THEN Ret(db, FALSE, "MemberNotFound", 0)
    ELSE IF bid \notin DOMAIN db.book THEN Ret(db, FALSE, "BookNotFound", 0)
    ELSE IF QtyDiscountError(sqty, sdiscount) THEN Ret(db, FALSE, "QtyDiscountError", 0)
    ELSE
        LET stotal == SaleTotal(db.book[bid].bprice, sqty, sdiscount)
            w1 == InsertSale(db, sdate, mid, bid, sqty, sdiscount, stotal)
            w2 == DecrementStock(w1, sqty, bid)
        IN  IF fault = "insert" THEN Ret(Rollback(db, db), FALSE, "DatabaseError", 0)
            ELSE IF fault = "update_book"
            THEN Ret(Rollback(db, w1), FALSE, "DatabaseError", 0)
            ELSE IF StockError(db.book[bid], sqty)
            THEN Ret(w2, FALSE, "InsufficientStock", 0)
            ELSE IF fault = "commit"
            THEN Ret(Rollback(db, w2), FALSE, "DatabaseError", 0)
            ELSE Ret(Commit(db, w2), TRUE, "Added", w2.seq)

\* The body of add_sale on store db. fault names the statement of the write
\* phase that raises sqlite3.Error in this call ("none": no statement does).
\* (A SELECT that raises does so before anything is written: the store is as
\* before, and the error is reported like the others.)
add_sale(db, sdate, mid, bid, sqty, sdiscount, fault) ==
    IF DateFormatError(sdate) THEN Ret(db, FALSE, "DateFormatError", 0)
    ELSE IF mid \notin DOMAIN db.member THEN Ret(db, FALSE, "MemberNotFound", 0)
    ELSE IF bid \notin DOMAIN db.book THEN Ret(db, FALSE, "BookNotFound", 0)
    ELSE IF QtyDiscountError(sqty, sdiscount) THEN Ret(db, FALSE, "QtyDiscountError", 0)
    ELSE IF StockError(db.book[bid], sqty) THEN Ret(db, FALSE, "InsufficientStock", 0)
    ELSE
        LET stotal == SaleTotal(db.book[bid].bprice, sqty, sdiscount)
            w1 == InsertSale(db, sdate, mid, bid, sqty, sdiscount, stotal)
            w2 == DecrementStock(w1, sqty, bid)
        IN  IF fault = "insert" THEN Ret(Rollback(db, db), FALSE, "DatabaseError", 0)
            ELSE IF fault = "update_book"
            THEN Ret(Rollback(db, w1), FALSE, "DatabaseError", 0)
            ELSE IF fault = "commit"
            THEN Ret(Rollback(db, w2), FALSE, "DatabaseError", 0)
            ELSE Ret(Commit(db, w2), TRUE, "Added", w2.seq)

AddSaleFaults == {"none", "insert", "update_book", "commit"}

(***************************************************************************)
(* initialize_db                                                           *)
(***************************************************************************)
SeedPrice == 500

SeedStock == 10

SeedMember == [mname |-> "Alice", mphone |-> "0912345678", memail |-> "alice@example.com"]

SeedBook == [btitle |-> "Python", bprice |-> SeedPrice, bstock |-> SeedStock]

\* Variant: INSERT OR REPLACE, the seed row overwrites the row that is there
InsertOrReplace(table, key, row) ==
    [k \in DOMAIN table \cup {key} |-> IF k = key THEN row ELSE table[k]]

\* INSERT OR IGNORE: the row is added only when its primary key is absent
InsertOrIgnore(table, key, row) ==
    IF key \in DOMAIN table THEN table
    ELSE [k \in DOMAIN table \cup {key} |-> IF k = key THEN row ELSE table[k]]

\* CREATE TABLE IF NOT EXISTS leaves existing tables alone; then the two seeds
initialize_db(db) ==
    [db EXCEPT !.member = InsertOrIgnore(db.member, "M001", SeedMember),
               !.book = InsertOrIgnore(db.book, "B001", SeedBook)]

(***************************************************************************)
(* print_sale_report and list_sales_summary                                *)
(***************************************************************************)
\* SELECT ... FROM sale JOIN member ON sale.mid = member.mid ORDER BY sale.sid
SummaryRows(db) ==
    LET ids == Ascending({s \in DOMAIN db.sale : db.sale[s].mid \in DOMAIN db.member})
    IN  [i \in 1..Len(ids) |->
            [sid |-> ids[i], sdate |-> db.sale[ids[i]].sdate,
             mname |-> db.member[db.sale[ids[i]].mid].mname]]

\* the sid_list that list_sales_summary returns
list_sales_summary(db) ==
    LET rows == SummaryRows(db) IN [i \in 1..Len(rows) |-> rows[i].sid]

\* SELECT ... FROM sale JOIN member ... JOIN book ... ORDER BY sale.sid, and the
\* fields as they are printed
print_sale_report(db) ==
    LET ids == Ascending({s \in DOMAIN db.sale :
                            /\ db.sale[s].mid \in DOMAIN db.member
                            /\ db.sale[s].bid \in DOMAIN db.book})
    IN  [i \in 1..Len(ids) |->
            LET r == db.sale[ids[i]] IN
            [sid |-> ids[i], sdate |-> r.sdate,
             mname |-> db.member[r.mid].mname,
             btitle |-> db.book[r.bid].btitle,
             bprice |-> FormatComma(db.book[r.bid].bprice),
             sqty |-> r.sqty,
             sdiscount |-> FormatComma(r.sdiscount),
             stotal |-> FormatComma(r.stotal)]]

(***************************************************************************)
(* update_sale                                                             *)
(***************************************************************************)
URet(db, ok, msg, sid) ==
    [db |-> db, ret |-> Outcome("update_sale", ok, msg, sid, <<>>)]

\* Variant: the quantity is left out of the new total
NewTotalWithoutQty(bprice, sqty, new_discount) == bprice - new_discount

\* new_total = row['bprice'] * row['sqty'] - new_discount
NewTotal(bprice, sqty, new_discount) == bprice * sqty - new_discount

\* SELECT * FROM sale JOIN book ON sale.bid = book.bid WHERE sid = ?
SaleJoinBook(db, sid) ==
    {s \in DOMAIN db.sale : s = sid /\ db.sale[s].bid \in DOMAIN db.book}

\* Variant: the number typed is taken as the position in the printed listing,
\* not as the sale id
update_sale_ByPosition(db, choice_in, discount_in, fault) ==
    LET sid_list == list_sales_summary(db)
        choice == Strip(choice_in)
    IN  IF choice = <<>> THEN URet(db, FALSE, "Cancelled", 0)
        ELSE IF ~IsDigit(choice) THEN URet(db, FALSE, "NotANumber", 0)
        ELSE
            LET pos == DigitsToInt(choice) IN
            IF pos \notin DOMAIN sid_list THEN URet(db, FALSE, "SaleNotFound", 0)
            ELSE
                LET sid == sid_list[pos]
                    new_discount == ParseInt(discount_in)
                IN  IF ~new_discount.ok THEN URet(db, FALSE, "DiscountNotInteger", 0)
                    ELSE
                        LET row == db.sale[sid]
                            new_total == NewTotal(db.book[row.bid].bprice, row.sqty,
                                                  new_discount.val)
                            w1 == UpdateSaleRow(db, new_discount.val, new_total, sid)
                        IN  IF fault = "update_sale"
                            THEN URet(Rollback(db, db), FALSE, "UpdateFailed", 0)
                            ELSE IF fault = "commit"
                            THEN URet(Rollback(db, w1), FALSE, "UpdateFailed", 0)
                            ELSE URet(Commit(db, w1), TRUE, "Updated", sid)

\* The body of update_sale: choice_in and discount_in are the two lines typed.
update_sale(db, choice_in, discount_in, fault) ==
    LET sid_list == list_sales_summary(db)
        choice == Strip(choice_in)
    IN  IF choice = <<>> THEN URet(db, FALSE, "Cancelled", 0)
        ELSE IF ~IsDigit(choice) THEN URet(db, FALSE, "NotANumber", 0)
        ELSE
            LET sid == DigitsToInt(choice) IN
            IF sid \notin Range(sid_list) THEN URet(db, FALSE, "SaleNotFound", 0)
            ELSE IF SaleJoinBook(db, sid) = {} THEN URet(db, FALSE, "SaleNotFound", 0)
            ELSE
                LET new_discount == ParseInt(discount_in) IN
                IF ~new_discount.ok THEN URet(db, FALSE, "DiscountNotInteger", 0)
                ELSE
                    LET row == db.sale[sid]
                        new_total == NewTotal(db.book[row.bid].bprice, row.sqty,
                                              new_discount.val)
                        w1 == UpdateSaleRow(db, new_discount.val, new_total, sid)
                    IN  IF fault = "update_sale"
                        THEN URet(Rollback(db, db), FALSE, "UpdateFailed", 0)
                        ELSE IF fault = "commit"
                        THEN URet(Rollback(db, w1), FALSE, "UpdateFailed", 0)
                        ELSE URet(Commit(db, w1), TRUE, "Updated", sid)

UpdateSaleFaults == {"none", "update_sale", "commit"}

(***************************************************************************)
(* delete_sale                                                             *)
(***************************************************************************)
DRet(db, ok, msg, sid) ==
    [db |-> db, ret |-> Outcome("delete_sale", ok, msg, sid, <<>>)]

\* The body of delete_sale: sid_in is the line typed.
delete_sale(db, sid_in, fault) ==
    LET sid == Strip(sid_in)
        found == SidMatches(db, sid)
    IN  IF found = {} THEN DRet(db, FALSE, "SaleNotFound", 0)
        ELSE
            LET s == CHOOSE x \in found : TRUE
                row == db.sale[s]
                w1 == RestoreStock(db, row.sqty, row.bid)
                w2 == DeleteSaleRow(w1, sid)
            IN  IF fault = "update_book"
                THEN DRet(Rollback(db, db), FALSE, "DeleteFailed", 0)
                ELSE IF fault = "delete_sale"
                THEN DRet(Rollback(db, w1), FALSE, "DeleteFailed", 0)
                ELSE IF fault = "commit"
                THEN DRet(Rollback(db, w2), FALSE, "DeleteFailed", 0)
                ELSE DRet(Commit(db, w2), TRUE, "Deleted", s)

DeleteSaleFaults == {"none", "update_book", "delete_sale", "commit"}

(***************************************************************************)
(* Inputs                                                                  *)
(***************************************************************************)
Str10(a, b, c, d, e, f, g, h, i, j) == <<a, b, c, d, e, f, g, h, i, j>>

Dates ==
    { Str10("2", "0", "2", "4", "-", "0", "1", "-", "1", "5"),    \* 2024-01-15
      Str10("2", "0", "2", "4", "/", "0", "1", "/", "1", "5"),    \* 2024/01/15
      Str10("2", "0", "2", "4", "0", "-", "1", "-", "1", "5") }   \* 20240-1-15

MemberIds == {"M001", "M999"}

BookIds == {"B001", "B002"}

Quantities == {0, 4, 7}

Discounts == {-1, 50}

\* what may be typed at the prompts of update_sale and delete_sale
SidTexts == {NatToStr(n) : n \in 1..(MaxSid + 1)} \cup {<<>>, <<"x">>, <<" ", "1", " ">>}

DiscountTexts == {<<"-", "5">>, <<"5", "0">>, <<"a", "b", "c">>}

\* the book table found at start-up: a new database, or one that already holds
\* a second title
Catalogues ==
    { << >>,
      [b \in {"B002"} |-> [btitle |-> "SQL", bprice |-> 10, bstock |-> 4]] }

(***************************************************************************)
(* State machine                                                           *)
(***************************************************************************)
Install(db, ret) ==
    /\ member' = db.member
    /\ book' = db.book
    /\ sale' = db.sale
    /\ sqlite_sequence' = db.seq
    /\ result' = ret
    /\ bpriceAtCreation' =
         [s \in DOMAIN db.sale |->
             IF s \in DOMAIN sale THEN bpriceAtCreation[s]
             ELSE book[db.sale[s].bid].bprice]
    /\ assigned' = IF ret.op = "add_sale" /\ ret.ok THEN assigned \cup {ret.sid}
                   ELSE assigned
    /\ UNCHANGED bstock0

Init ==
    \E cat \in Catalogues :
        LET db == initialize_db([member |-> << >>, book |-> cat,
                                 sale |-> << >>, seq |-> 0])
        IN  /\ member = db.member
            /\ book = db.book
            /\ sale = db.sale
            /\ sqlite_sequence = db.seq
            /\ result = Outcome("initialize_db", TRUE, "Initialized", 0, <<>>)
            /\ bstock0 = [b \in DOMAIN db.book |-> db.book[b].bstock]
            /\ bpriceAtCreation = << >>
            /\ assigned = {}

InitializeDb ==
    Install(initialize_db(Db),
            Outcome("initialize_db", TRUE, "Initialized", 0, <<>>))

AddSale(sdate, mid, bid, sqty, sdiscount, fault) ==
    LET r == add_sale(Db, sdate, mid, bid, sqty, sdiscount, fault)
    IN  /\ r.ret.msg \in {"Added", "DatabaseError"} => sqlite_sequence < MaxSid
        /\ Install(r.db, r.ret)

PrintSaleReport ==
    Install(Db, Outcome("print_sale_report", TRUE, "Report", 0, print_sale_report(Db)))

\* Variant: the listing takes the rows out of the table as it reads them
ListSalesSummaryConsuming ==
    Install([Db EXCEPT !.sale = << >>],
            Outcome("list_sales_summary", TRUE, "Summary", 0, list_sales_summary(Db)))

ListSalesSummary ==
    Install(Db, Outcome("list_sales_summary", TRUE, "Summary", 0, list_sales_summary(Db)))

UpdateSale(choice, discount, fault) ==
    LET r == update_sale(Db, choice, discount, fault)
    IN  Install(r.db, r.ret)

DeleteSale(sid, fault) ==
    LET r == delete_sale(Db, sid, fault)
    IN  Install(r.db, r.ret)

Next ==
    \/ InitializeDb
    \/ \E sdate \in Dates, mid \in MemberIds, bid \in BookIds,
          sqty \in Quantities, sdiscount \in Discounts, fault \in AddSaleFaults :
            AddSale(sdate, mid, bid, sqty, sdiscount, fault)
    \/ PrintSaleReport
    \/ ListSalesSummary
    \/ \E choice \in SidTexts, discount \in DiscountTexts, fault \in UpdateSaleFaults :
            UpdateSale(choice, discount, fault)
    \/ \E sid \in SidTexts, fault \in DeleteSaleFaults :
            DeleteSale(sid, fault)

Spec == Init /\ [][Next]_vars

(***************************************************************************)
(* Properties                                                              *)
(***************************************************************************)
RECURSIVE SumQty(_, _)
SumQty(rows, S) ==
    IF S = {} THEN 0
    ELSE LET s == CHOOSE x \in S : TRUE
         IN  rows[s].sqty + SumQty(rows, S \ {s})

\* the quantities of the sale rows present that reference book b
SoldQty(b) == SumQty(sale, {s \in DOMAIN sale : sale[s].bid = b})

\* the messages add_sale returns when one of its five checks fails
ValidationMsgs ==
    {"DateFormatError", "MemberNotFound", "BookNotFound", "QtyDiscountError",
     "InsufficientStock"}

\* the calendar-date shape YYYY-MM-DD: ten characters, '-' at positions 5 and 8,
\* digits elsewhere
WellFormedDate(s) ==
    /\ Len(s) = 10
    /\ s[5] = "-"
    /\ s[8] = "-"
    /\ \A i \in {1, 2, 3, 4, 6, 7, 9, 10} : s[i] \in Digits

\* the number of the check that a message of add_sale reports (0: success)
CheckOf(msg) ==
    CASE msg = "DateFormatError" -> 1
      [] msg = "MemberNotFound" -> 2
      [] msg = "BookNotFound" -> 3
      [] msg = "QtyDiscountError" -> 4
      [] msg = "InsufficientStock" -> 5
      [] msg = "Added" -> 0
      [] OTHER -> 6

\* the lowest-numbered check of the documented order that a call violates in
\* the current store (0: none)
FirstViolated(sdate, mid, bid, sqty, sdiscount) ==
    IF ~WellFormedDate(sdate) THEN 1
    ELSE IF mid \notin DOMAIN member THEN 2
    ELSE IF bid \notin DOMAIN book THEN 3
    ELSE IF ~(sqty > 0 /\ sdiscount >= 0) THEN 4
    ELSE IF ~(book[bid].bstock >= sqty) THEN 5
    ELSE 0

\* C1: for every book, the current stock equals the stock the book started with
\* minus the sum of the quantities of the sale rows present that reference it.
C1_StockConservation ==
    \A b \in DOMAIN book : book[b].bstock = bstock0[b] - SoldQty(b)

\* a sale was just deleted while another sale is still present
C1_Witness ==
    /\ result.msg = "Deleted"
    /\ \E s \in DOMAIN sale : SoldQty(sale[s].bid) > 0

\* C2: every book's stock is a non-negative integer in every reachable state.
C2_StockNonNegative ==
    \A b \in DOMAIN book : book[b].bstock \in Nat

\* a sale was refused for lack of stock while some book is sold out
C2_Witness ==
    /\ result.msg = "InsufficientStock"
    /\ \E b \in DOMAIN book : book[b].bstock = 0

\* C3: for every sale row present, stotal equals the book's price when the sale
\* was created, times sqty, minus sdiscount; after create and after any update.
C3_TotalCorrect ==
    \A s \in DOMAIN sale :
        sale[s].stotal = bpriceAtCreation[s] * sale[s].sqty - sale[s].sdiscount

\* a sale was just updated, to a discount other than the one it was created with
C3_Witness ==
    /\ result.msg = "Updated"
    /\ result.sid \in DOMAIN sale
    /\ sale[result.sid].sdiscount \notin Discounts

\* C4: every sale row present has quantity > 0 and discount >= 0.
C4_SaleFieldsValid ==
    \A s \in DOMAIN sale : sale[s].sqty > 0 /\ sale[s].sdiscount >= 0

\* C5: an add_sale in which the insert, the stock decrement or the commit raises
\* a storage error returns failure and leaves sale rows, book stocks and the
\* id counter as they were before the call.
C5_CreateAtomic ==
    [][(result'.op = "add_sale" /\ result'.msg = "DatabaseError")
        => /\ ~result'.ok
           /\ sale' = sale
           /\ book' = book
           /\ sqlite_sequence' = sqlite_sequence]_vars

\* an add_sale just failed on a storage error in a store that holds a sale
C5_Witness ==
    /\ result.op = "add_sale"
    /\ result.msg = "DatabaseError"
    /\ DOMAIN sale # {}

\* C6: an add_sale that fails one of its validation checks returns failure and
\* leaves members, books, sale rows and the next sale id unchanged.
C6_ValidationFailureNoChange ==
    [][(result'.op = "add_sale" /\ result'.msg \in ValidationMsgs)
        => /\ ~result'.ok
           /\ UNCHANGED <<member, book, sale, sqlite_sequence>>
           /\ NextSid(Db)' = NextSid(Db)]_vars

\* an add_sale was just refused for lack of stock in a store that holds a sale
C6_Witness ==
    /\ result.op = "add_sale"
    /\ result.msg = "InsufficientStock"
    /\ DOMAIN sale # {}

\* C7: add_sale, when no storage error occurs, reports the lowest-numbered
\* violated check of the order (1) date well-formed, (2) member exists,
\* (3) book exists, (4) quantity > 0 and discount >= 0, (5) stock >= quantity,
\* and succeeds exactly when no check is violated.
C7_FirstFailingCheck ==
    [][\A sdate \in Dates, mid \in MemberIds, bid \in BookIds,
          sqty \in Quantities, sdiscount \in Discounts :
            AddSale(sdate, mid, bid, sqty, sdiscount, "none")
                => /\ CheckOf(result'.msg) = FirstViolated(sdate, mid, bid, sqty, sdiscount)
                   /\ result'.ok <=> FirstViolated(sdate, mid, bid, sqty, sdiscount) = 0]_vars

\* C8: add_sale rejects with the date-format error every date that is not of
\* the shape YYYY-MM-DD.
C8_MalformedDateRejected ==
    [][\A sdate \in Dates, mid \in MemberIds, bid \in BookIds,
          sqty \in Quantities, sdiscount \in Discounts, fault \in AddSaleFaults :
            (AddSale(sdate, mid, bid, sqty, sdiscount, fault) /\ ~WellFormedDate(sdate))
                => (~result'.ok /\ result'.msg = "DateFormatError")]_vars

\* C9: a successful update_sale of sale s changes only s's discount and total:
\* s's quantity, date, member and book, every other sale row, the set of sale
\* ids and every book and member row are unchanged.
C9_UpdateFrame ==
    [][(result'.op = "update_sale" /\ result'.ok)
        => LET s == result'.sid
           IN  /\ s \in DOMAIN sale
               /\ DOMAIN sale' = DOMAIN sale
               /\ \A x \in DOMAIN sale \ {s} : sale'[x] = sale[x]
               /\ sale'[s].sqty = sale[s].sqty
               /\ sale'[s].sdate = sale[s].sdate
               /\ sale'[s].mid = sale[s].mid
               /\ sale'[s].bid = sale[s].bid
               /\ book' = book
               /\ member' = member]_vars

\* a sale was just updated in a store that holds another sale with another discount
C9_Witness ==
    /\ result.msg = "Updated"
    /\ \E x \in DOMAIN sale :
          x # result.sid /\ sale[x].sdiscount # sale[result.sid].sdiscount

\* C10: a successful delete_sale of sale s raises the stock of s's book by s's
\* quantity and removes exactly row s; s is then absent from the summary
\* listing and from the report; other sale rows and other books are unchanged.
C10_DeleteEffect ==
    [][(result'.op = "delete_sale" /\ result'.ok)
        => LET s == result'.sid
           IN  /\ s \in DOMAIN sale
               /\ sale' = [x \in DOMAIN sale \ {s} |-> sale[x]]
               /\ book' = [b \in DOMAIN book |->
                              IF b = sale[s].bid
                              THEN [book[b] EXCEPT !.bstock = @ + sale[s].sqty]
                              ELSE book[b]]
               /\ s \notin Range(list_sales_summary(Db))'
               /\ s \notin {r.sid : r \in Range(print_sale_report(Db))}']_vars

\* a sale was just deleted from a store with two books and another sale
C10_Witness ==
    /\ result.msg = "Deleted"
    /\ DOMAIN sale # {}
    /\ Cardinality(DOMAIN book) = 2

\* C11: a delete_sale or an update_sale in which a write or the commit raises a
\* storage error reports failure and leaves every book's stock and every sale
\* row (the sale's discount and total included) as they were before the call.
C11_DeleteUpdateAtomic ==
    [][(result'.msg \in {"DeleteFailed", "UpdateFailed"})
        => /\ ~result'.ok
           /\ book' = book
           /\ sale' = sale
           /\ sqlite_sequence' = sqlite_sequence]_vars

\* a delete_sale just failed on a storage error, on a sale whose discount an
\* earlier update_sale had changed
C11_Witness ==
    /\ result.op = "delete_sale"
    /\ result.msg = "DeleteFailed"
    /\ \E s \in DOMAIN sale : sale[s].sdiscount \notin Discounts

\* C12: running initialize_db again, in any reachable state, leaves one member
\* row M001 and one book row B001 and changes no row: B001's stock is not set
\* back to the seed value and no sale row is added or removed.
C12_InitializeIdempotent ==
    [][(result'.op = "initialize_db")
        => /\ "M001" \in DOMAIN member' /\ "B001" \in DOMAIN book'
           /\ member' = member
           /\ book' = book
           /\ sale' = sale
           /\ sqlite_sequence' = sqlite_sequence]_vars

\* initialize_db just ran on a store in which B001's stock is below the seed
\* value and a sale exists
C12_Witness ==
    /\ result.op = "initialize_db"
    /\ book["B001"].bstock < SeedStock
    /\ DOMAIN sale # {}

\* C13: delete_sale or update_sale called with a sale id that is not in the
\* store reports not-found and leaves the whole store unchanged, in every
\* reachable store, whatever else is typed and wherever a storage error is due.
C13_AbsentSaleNotFound ==
    \A n \in 1..(MaxSid + 1) :
        n \notin DOMAIN sale =>
            /\ \A fault \in DeleteSaleFaults :
                  delete_sale(Db, NatToStr(n), fault) =
                      [db |-> Db,
                       ret |-> Outcome("delete_sale", FALSE, "SaleNotFound", 0, <<>>)]
            /\ \A discount \in DiscountTexts, fault \in UpdateSaleFaults :
                  update_sale(Db, NatToStr(n), discount, fault) =
                      [db |-> Db,
                       ret |-> Outcome("update_sale", FALSE, "SaleNotFound", 0, <<>>)]

\* delete_sale just reported not-found in a store from which a sale had been
\* deleted before and in which another sale is present
C13_Witness ==
    /\ result.op = "delete_sale"
    /\ result.msg = "SaleNotFound"
    /\ \E n \in 1..sqlite_sequence : n \notin DOMAIN sale
    /\ DOMAIN sale # {}

\* C14: the summary listing is, in strictly ascending order, exactly the ids
\* of the sale rows present: each once, and no deleted or never-created id;
\* and that is what a run of list_sales_summary returned.
C14_SummaryListing ==
    LET sid_list == list_sales_summary(Db)
    IN  /\ Range(sid_list) = DOMAIN sale
        /\ Len(sid_list) = Cardinality(DOMAIN sale)
        /\ \A i \in 1..(Len(sid_list) - 1) : sid_list[i] < sid_list[i + 1]
        /\ result.op = "list_sales_summary" => result.out = sid_list

\* list_sales_summary just returned two or more ids
C14_Witness ==
    /\ result.op = "list_sales_summary"
    /\ Len(result.out) >= 2

\* C15: a run of print_sale_report or list_sales_summary leaves members, books,
\* sale rows and the next sale id unchanged, and a run that directly follows a
\* run of the same view produces the same output.
C15_ViewsReadOnly ==
    [][(result'.op \in {"print_sale_report", "list_sales_summary"})
        => /\ UNCHANGED <<member, book, sale, sqlite_sequence>>
           /\ NextSid(Db)' = NextSid(Db)
           /\ result.op = result'.op => result'.out = result.out]_vars

\* print_sale_report just ran on a store that holds a sale
C15_Witness ==
    /\ result.op = "print_sale_report"
    /\ Len(result.out) >= 1
    /\ DOMAIN sale # {}

\* C16: each successful add_sale creates a sale id strictly greater than every
\* id created by an earlier successful add_sale, also when the sales that held
\* those ids have been deleted.
C16_FreshSaleIds ==
    [][(result'.op = "add_sale" /\ result'.ok)
        => /\ \A x \in assigned : result'.sid > x
           /\ result'.sid \in DOMAIN sale'
           /\ result'.sid \notin DOMAIN sale]_vars

\* add_sale just succeeded after the sale with the highest earlier id was deleted
C16_Witness ==
    /\ result.op = "add_sale"
    /\ result.ok
    /\ result.sid - 1 \in assigned
    /\ result.sid - 1 \notin DOMAIN sale

\* C17: in every reachable store, an add_sale whose date is well-formed, whose
\* member and book exist, with quantity > 0, stock >= quantity and
\* discount >= 0 succeeds and stores price * quantity - discount, also when
\* that is negative; and an update_sale of a sale present to a discount >= 0
\* succeeds and stores price * quantity - discount, also when that is negative.
C17_TotalNotFloored ==
    /\ \A sdate \in Dates, mid \in MemberIds, bid \in BookIds,
          sqty \in Quantities, sdiscount \in Discounts :
            ( /\ WellFormedDate(sdate)
              /\ mid \in DOMAIN member
              /\ bid \in DOMAIN book
              /\ sqty > 0
              /\ sdiscount >= 0
              /\ book[bid].bstock >= sqty )
            => LET r == add_sale(Db, sdate, mid, bid, sqty, sdiscount, "none")
               IN  /\ r.ret.ok
                   /\ r.ret.sid \in DOMAIN r.db.sale
                   /\ r.db.sale[r.ret.sid].sdiscount = sdiscount
                   /\ r.db.sale[r.ret.sid].stotal = book[bid].bprice * sqty - sdiscount
    /\ \A s \in DOMAIN sale, d \in {x \in Discounts : x >= 0} :
            LET r == update_sale(Db, NatToStr(s), NatToStr(d), "none")
            IN  /\ r.ret.ok
                /\ r.db.sale[s].sdiscount = d
                /\ r.db.sale[s].stotal = book[sale[s].bid].bprice * sale[s].sqty - d

\* add_sale just succeeded with a discount above price * quantity: the total
\* stored is negative
C17_Witness ==
    /\ result.op = "add_sale"
    /\ result.ok
    /\ result.sid \in DOMAIN sale
    /\ sale[result.sid].sdiscount > book[sale[result.sid].bid].bprice * sale[result.sid].sqty
    /\ sale[result.sid].stotal < 0

\* C18: in every reachable store, a successful add_sale followed at once by a
\* successful delete_sale of the sale just created gives back every book's
\* stock and the sale rows as they were; only the next sale id differs.
C18_CreateDeleteRoundTrip ==
    \A sdate \in Dates, mid \in MemberIds, bid \in BookIds,
       sqty \in Quantities, sdiscount \in Discounts :
        LET r1 == add_sale(Db, sdate, mid, bid, sqty, sdiscount, "none")
        IN  r1.ret.ok =>
                LET r2 == delete_sale(r1.db, NatToStr(r1.ret.sid), "none")
                IN  /\ r2.ret.ok
                    /\ r2.ret.sid = r1.ret.sid
                    /\ r1.db.book # book
                    /\ r2.db.book = book
                    /\ r2.db.sale = sale
                    /\ r2.db.member = member
                    /\ NextSid(r2.db) = NextSid(Db) + 1

\* the sale created last was just deleted, and a sale created before it is
\* still present
C18_Witness ==
    /\ result.op = "delete_sale"
    /\ result.ok
    /\ result.sid = sqlite_sequence
    /\ result.sid \in assigned
    /\ DOMAIN sale # {}

====
